---- MODULE Spec2Model ----
(***************************************************************************)
(* A model of the RAG orchestration pipeline of app/: QueryPlanner.plan,   *)
(* RetrieverAgent.retrieve_parallel, ValidatorAgent.validate_batch and     *)
(* RAGPipeline.process, with the three external services (completion,      *)
(* embedding, vector search) as nondeterministic environments.             *)
(*                                                                         *)
(* Conventions.                                                            *)
(*  - A Python string is modelled by the sequence of its whitespace-       *)
(*    separated words (what str.split() returns); "" and a blank string    *)
(*    are <<>>.  str.lower() acts word by word (Lower).                    *)
(*  - A float in [0,1] is modelled by the integer x * Scale.  Scale is     *)
(*    divisible by every word count the bounds allow, so that every        *)
(*    division of the model is exact.                                      *)
(*  - A decoded JSON value is a record [t, s, n, items, members].          *)
(***************************************************************************)
EXTENDS Integers, Sequences, FiniteSets, TLC

VARIABLES
    pc,                \* position of the run
    query,             \* process(query, ...) / plan(query)
    max_sources,       \* process(..., max_sources)
    min_confidence,    \* ValidatorAgent.min_confidence (scaled)
    min_confidence_arg,\* the argument ValidatorAgent was constructed with
    plan_response,     \* what the completion service did for plan()
    sub_queries,       \* plan()'s result
    store,             \* the ids held by the vector store
    pass,              \* number of the retrieve_parallel call: 1, 2
    rq,                \* retrieve_parallel: its sub_queries argument
    top_k,             \* retrieve_parallel: its top_k argument
    ri,                \* retrieve_parallel: index of the next sub-query
    all_chunks,        \* retrieve_parallel: all_chunks
    seen_ids,          \* retrieve_parallel: seen_ids
    served,            \* history: the hits the store returned in this pass
    chunks,            \* process: chunks
    scores,            \* history: _validate_single's result per chunk
    validated,         \* process / validate_batch: validated
    missing_topics,    \* validate_batch: missing_topics
    needs_reretrieval, \* validate_batch: needs_reretrieval
    additional_chunks, \* process: additional_chunks
    synth_chunks,      \* the list handed to synthesize
    context,           \* synthesize: the numbered parts of context
    answer,            \* process: answer
    result,            \* the RAGResult returned
    raised,            \* the exception process let through, or "none"
    trace,             \* history: the stages invoked, in order
    gen,               \* query_stream: position of event_generator, or "off"
    words,             \* event_generator: the words still to stream
    events             \* the events event_generator has yielded

vars == <<pc, query, max_sources, min_confidence, min_confidence_arg,
          plan_response, sub_queries, store, pass, rq, top_k, ri, all_chunks,
          seen_ids, served, chunks, scores, validated, missing_topics,
          needs_reretrieval, additional_chunks, synth_chunks, context, answer,
          result, raised, trace, gen, words, events>>

-----------------------------------------------------------------------------
(* Numbers and text *)

Scale == 12 * 10

Min(a, b) == IF a <= b THEN a ELSE b
Max(a, b) == IF a >= b THEN a ELSE b

Range(s) == {s[i] : i \in 1..Len(s)}

\* s[:n]
Take(s, n) == SubSeq(s, 1, Min(n, Len(s)))

\* str.lower() on one word of the vocabulary
Lower(w) ==
    CASE w = "AWS" -> "aws"
      [] w = "Docker" -> "docker"
      [] OTHER -> w

\* set(text.lower().split())
WordSet(text) == {Lower(text[i]) : i \in 1..Len(text)}

-----------------------------------------------------------------------------
(* Decoded JSON values *)

JStr(s) == [t |-> "str", s |-> s, n |-> 0, items |-> <<>>, members |-> <<>>]
JInt(n) == [t |-> "int", s |-> <<>>, n |-> n, items |-> <<>>, members |-> <<>>]
JNull == [t |-> "null", s |-> <<>>, n |-> 0, items |-> <<>>, members |-> <<>>]
JList(items) ==
    [t |-> "list", s |-> <<>>, n |-> 0, items |-> items, members |-> <<>>]
\* members: a sequence of [k |-> key, v |-> value] with distinct keys, in the
\* order of the text (a Python dict keeps it)
JDict(members) ==
    [t |-> "dict", s |-> <<>>, n |-> 0, items |-> <<>>, members |-> members]

\* bool(v)
Truthy(v) ==
    CASE v.t = "str" -> v.s # <<>>
      [] v.t = "int" -> v.n # 0
      [] v.t = "list" -> v.items # <<>>
      [] v.t = "dict" -> v.members # <<>>
      [] OTHER -> FALSE

\* key in d
HasKey(d, key) == \E i \in 1..Len(d.members) : d.members[i].k = key

\* d.get(key, default)
Get(d, key, default) ==
    IF HasKey(d, key)
    THEN d.members[CHOOSE i \in 1..Len(d.members) : d.members[i].k = key].v
    ELSE default

\* list(d.values())
Values(d) == [i \in 1..Len(d.members) |-> d.members[i].v]

-----------------------------------------------------------------------------
(* QueryPlanner *)

\* SubQuery(text=..., priority=...); priority is kept as decoded
SubQuery(text, priority) == [text |-> text, priority |-> priority]

\* the single-sub-query fallback
Fallback(q) == <<SubQuery(q, JInt(1))>>

\* a planner that looks for the known keys in the opposite order
sub_queries_list_ResultsFirst(data) ==
    CASE data.t = "list" -> data
      [] data.t = "dict" ->
            IF HasKey(data, "results") THEN Get(data, "results", JNull)
            ELSE IF HasKey(data, "queries") THEN Get(data, "queries", JNull)
            ELSE IF HasKey(data, "sub_queries")
                 THEN Get(data, "sub_queries", JNull)
            ELSE JList(Values(data))
      [] OTHER -> JList(<<>>)

\* the list plan iterates over (planner.py 94-106)
sub_queries_list(data) ==
    CASE data.t = "list" -> data
      [] data.t = "dict" ->
            IF HasKey(data, "sub_queries") THEN Get(data, "sub_queries", JNull)
            ELSE IF HasKey(data, "queries") THEN Get(data, "queries", JNull)
            ELSE IF HasKey(data, "results") THEN Get(data, "results", JNull)
            ELSE JList(Values(data))
      [] OTHER -> JList(<<>>)

\* what "for sq in sub_queries_list" visits: the items of a list; the keys of
\* a dict and the characters of a string, none of which is a dict
Iterable(v) == v.t \in {"list", "dict", "str"}
Visited(v) == IF v.t = "list" THEN v.items ELSE <<>>

\* planner.py 109-115: the SubQuery objects of the dict entries with a text
RECURSIVE Convert(_)
Convert(entries) ==
    IF entries = <<>> THEN <<>>
    ELSE LET sq == Head(entries)
             text == Get(sq, "query", Get(sq, "text", JStr(<<>>)))
             priority == Get(sq, "priority", JInt(1))
         IN  (IF sq.t = "dict" /\ Truthy(text)
              THEN <<SubQuery(text.s, priority)>>
              ELSE <<>>) \o Convert(Tail(entries))

\* plan() without the fallback of line 118-119
plan_NoEmptyFallback(q, response) ==
    CASE response.kind = "json" ->
            LET l == sub_queries_list(response.data)
            IN  IF ~Iterable(l) THEN Fallback(q) ELSE Convert(Visited(l))
      [] OTHER -> Fallback(q)

\* QueryPlanner.plan(query) when the completion service does `response`
plan(q, response) ==
    CASE response.kind = "raise" -> Fallback(q)      \* line 127-129
      [] response.kind = "none" -> Fallback(q)       \* line 89-90
      [] response.kind = "invalid" -> Fallback(q)    \* line 123-125
      [] OTHER ->
            LET l == sub_queries_list(response.data)
            IN  IF ~Iterable(l)
                THEN Fallback(q)                     \* TypeError, line 127
                ELSE LET sqs == Convert(Visited(l))
                     IN  IF sqs = <<>> THEN Fallback(q) ELSE sqs

-----------------------------------------------------------------------------
(* The vector store and RetrieverAgent *)

\* The corpus: what the store holds under each id
Content(id) ==
    CASE id = "c1" -> <<"AWS", "docker", "deploy">>
      [] id = "c2" -> <<"Docker", "docker">>
      [] id = "c3" -> <<"guide", "deploy", "aws">>
      [] id = "c5" -> <<"Docker", "text190", "aws">>     \* 201 characters
      [] id = "c6" -> <<"docker", "text190", "up">>      \* 200 characters
      [] id = "c7" -> <<"docker", "up">>
      [] id = "c8" -> <<"Docker", "guide">>
      [] id = "c9" -> <<"docker", "on", "a", "ci">>
      [] OTHER -> <<>>

Document(id) ==
    CASE id = "c1" -> "aws.md"
      [] id = "c2" -> "docker.md"
      [] OTHER -> "unknown"

Section(id) == IF id = "c3" THEN "unknown" ELSE "Setup"

\* a distance as a query result holds it: a float (scaled), or None
Float(x) == [none |-> FALSE, x |-> x]
None == [none |-> TRUE, x |-> 0]

\* one hit of a query result: id, and the cosine distance
Hit(id, distance) == [id |-> id, distance |-> distance]

\* no id twice, and the distances that are there do not decrease
IsRanked(h) ==
    /\ \A i, j \in 1..Len(h) : i # j => h[i].id # h[j].id
    /\ \A i, j \in 1..Len(h) :
        (i < j /\ ~h[i].distance.none /\ ~h[j].distance.none)
            => h[i].distance.x <= h[j].distance.x

\* VectorStore.query(embedding, n_results): up to n_results hits over the
\* stored ids, no id twice, nearest first; the distances are the
\* environment's choice
QueryResults(ids, n_results, distances, maxHits) ==
    LET hits == {Hit(id, d) : id \in ids, d \in distances}
        m == Min(Min(n_results, maxHits), Cardinality(ids))
    IN  {h \in UNION {[1..n -> hits] : n \in 0..m} : IsRanked(h)}

\* retriever.py 73 taking a distance of None for a distance of 0
similarity_NoneAsZero(distance) ==
    IF ~distance.none THEN Scale - (distance.x \div 2) ELSE Scale

\* retriever.py 73: 1 - (distance / 2) if distance is not None else 0.5
similarity(distance) ==
    IF ~distance.none THEN Scale - (distance.x \div 2) ELSE Scale \div 2

\* retriever.py 72-81
RetrievedChunk(doc_id, distance) ==
    LET sim == similarity(distance)
    IN  [content |-> Content(doc_id),
         document |-> Document(doc_id),
         section |-> Section(doc_id),
         relevance_score |-> Max(0, Min(Scale, sim)),
         chunk_id |-> doc_id]

\* retriever.py 66-82 with "last hit wins" in place of "skip duplicates"
RECURSIVE AddHits_LastWins(_, _)
AddHits_LastWins(acc, hits) ==
    IF hits = <<>> THEN acc
    ELSE LET h == Head(hits)
             kept == SelectSeq(acc.all_chunks, LAMBDA c : c.chunk_id # h.id)
         IN  AddHits_LastWins(
                 [all_chunks |-> Append(kept, RetrievedChunk(h.id, h.distance)),
                  seen_ids |-> acc.seen_ids \cup {h.id}],
                 Tail(hits))

\* retriever.py 66-82: the loop over the hits of one query result
RECURSIVE AddHits(_, _)
AddHits(acc, hits) ==
    IF hits = <<>> THEN acc
    ELSE LET h == Head(hits)
         IN  IF h.id \in acc.seen_ids
             THEN AddHits(acc, Tail(hits))
             ELSE AddHits(
                 [all_chunks |->
                      Append(acc.all_chunks, RetrievedChunk(h.id, h.distance)),
                  seen_ids |-> acc.seen_ids \cup {h.id}],
                 Tail(hits))

\* list.sort(key=..., reverse=True): a stable sort, largest key first.
\* A sorted list here is a sequence of [key, item]
RECURSIVE InsertDesc(_, _)
InsertDesc(sorted, x) ==
    IF sorted = <<>> THEN <<x>>
    ELSE IF Head(sorted).key >= x.key
         THEN <<Head(sorted)>> \o InsertDesc(Tail(sorted), x)
         ELSE <<x>> \o sorted

RECURSIVE SortKeyed(_)
SortKeyed(s) ==
    IF s = <<>> THEN <<>>
    ELSE InsertDesc(SortKeyed(SubSeq(s, 1, Len(s) - 1)), s[Len(s)])

Items(s) == [i \in 1..Len(s) |-> s[i].item]

\* a sort of all_chunks, largest score first, that puts a chunk before the
\* chunks of equal score met earlier
RECURSIVE SortByRelevance_TiesReversed(_)
SortByRelevance_TiesReversed(cs) ==
    IF cs = <<>> THEN <<>>
    ELSE LET x == cs[Len(cs)]
             rest == SortByRelevance_TiesReversed(SubSeq(cs, 1, Len(cs) - 1))
         IN  SelectSeq(rest, LAMBDA c : c.relevance_score > x.relevance_score)
             \o <<x>>
             \o SelectSeq(rest,
                          LAMBDA c : c.relevance_score <= x.relevance_score)

\* all_chunks.sort(key=lambda x: x.relevance_score, reverse=True)
SortByRelevance(cs) ==
    Items(SortKeyed([i \in 1..Len(cs) |->
                        [key |-> cs[i].relevance_score, item |-> cs[i]]]))

\* validated.sort(key=lambda x: x.confidence, reverse=True)
SortByConfidence(vs) ==
    Items(SortKeyed([i \in 1..Len(vs) |->
                        [key |-> vs[i].confidence, item |-> vs[i]]]))

\* history of one pass: for each id served, its first hit, and whether a
\* later hit of the pass had the same id with a smaller distance
RECURSIVE Record(_, _)
Record(log, hits) ==
    IF hits = <<>> THEN log
    ELSE LET h == Head(hits)
             known == \E i \in 1..Len(log) : log[i].id = h.id
             upd == [i \in 1..Len(log) |->
                        IF /\ log[i].id = h.id
                           /\ ~h.distance.none /\ ~log[i].distance.none
                           /\ h.distance.x < log[i].distance.x
                        THEN [log[i] EXCEPT !.beaten = TRUE]
                        ELSE log[i]]
         IN  IF known THEN Record(upd, Tail(hits))
             ELSE Record(Append(log, [id |-> h.id, distance |-> h.distance,
                                      beaten |-> FALSE]),
                         Tail(hits))

-----------------------------------------------------------------------------
(* ValidatorAgent *)

\* Settings.validation_threshold = 0.6
validation_threshold == (6 * Scale) \div 10

\* The argument of ValidatorAgent(min_confidence=0.0): given or left out
NoArg == [given |-> FALSE, value |-> 0]
Arg(v) == [given |-> TRUE, value |-> v]
ArgValue(arg) == IF arg.given THEN arg.value ELSE 0

\* ValidatorAgent.__init__: self.min_confidence
ValidatorInit(arg) ==
    IF ArgValue(arg) > 0 THEN ArgValue(arg) ELSE validation_threshold

ValidatedChunk(chunk, confidence, reasoning) ==
    [chunk |-> chunk, confidence |-> confidence, reasoning |-> reasoning]

\* _validate_single counting the words of the query, not its distinct
\* lower-cased words
_validate_single_RawWords(chunk, q) ==
    LET overlap == Cardinality(Range(q) \cap Range(chunk.content))
        coverage == IF q # <<>> THEN (overlap * Scale) \div Len(q) ELSE 0
    IN  [confidence |-> (coverage \div 2) + (chunk.relevance_score \div 2),
         reasoning |-> "Moderate relevance, likely useful"]

\* ValidatorAgent._validate_single(chunk, query)
_validate_single(chunk, q) ==
    LET query_words == WordSet(q)
        chunk_words == WordSet(chunk.content)
        overlap == Cardinality(query_words \cap chunk_words)
        coverage == IF query_words # {}
                    THEN (overlap * Scale) \div Cardinality(query_words)
                    ELSE 0
        confidence == (coverage \div 2) + (chunk.relevance_score \div 2)
    IN  [confidence |-> confidence,
         reasoning |->
            IF confidence > (8 * Scale) \div 10
            THEN "High semantic relevance and keyword overlap"
            ELSE IF confidence > (6 * Scale) \div 10
            THEN "Moderate relevance, likely useful"
            ELSE IF confidence > (4 * Scale) \div 10
            THEN "Low relevance, may be tangential"
            ELSE "Poor relevance, likely not useful"]

\* ValidatorAgent._topic_coverage(chunk, sub_query): overlap/len > 0.3
_topic_coverage(chunk, sub_query) ==
    LET query_words == WordSet(sub_query)
        chunk_words == WordSet(chunk.content)
        overlap == Cardinality(query_words \cap chunk_words)
    IN  IF query_words # {}
        THEN overlap * 10 > 3 * Cardinality(query_words)
        ELSE FALSE

\* validator.py 55-65: the chunks kept, in input order
RECURSIVE Keep(_, _, _)
Keep(cs, q, threshold) ==
    IF cs = <<>> THEN <<>>
    ELSE LET r == _validate_single(Head(cs), q)
         IN  (IF r.confidence >= threshold
              THEN <<ValidatedChunk(Head(cs), r.confidence, r.reasoning)>>
              ELSE <<>>) \o Keep(Tail(cs), q, threshold)

\* validator.py 72-79 looking at every validated chunk
MissingTopics_OverAll(vs, sqs) ==
    LET covered_topics ==
            {sqs[j].text : j \in {j \in 1..Len(sqs) :
                \E i \in 1..Len(vs) :
                    _topic_coverage(vs[i].chunk, sqs[j].text)}}
        texts == [j \in 1..Len(sqs) |-> sqs[j].text]
    IN  SelectSeq(texts, LAMBDA t : t \notin covered_topics)

\* validator.py 72-79
MissingTopics(vs, sqs) ==
    LET covered_topics ==
            {sqs[j].text : j \in {j \in 1..Len(sqs) :
                \E i \in 1..Min(5, Len(vs)) :
                    _topic_coverage(vs[i].chunk, sqs[j].text)}}
        texts == [j \in 1..Len(sqs) |-> sqs[j].text]
    IN  SelectSeq(texts, LAMBDA t : t \notin covered_topics)

\* sq.priority == 1
IsOne(priority) == priority.t = "int" /\ priority.n = 1

\* validator.py 83-86: a sub-query of priority 1 is among the missing topics
HighPriorityMissing(missing, sqs) ==
    \E j \in 1..Len(sqs) :
        /\ \E m \in 1..Len(missing) : missing[m] = sqs[j].text
        /\ IsOne(sqs[j].priority)

\* validator.py 87
NeedsReretrieval(vs, missing, sqs) ==
    Len(vs) < 3 \/ HighPriorityMissing(missing, sqs)

Returned(vs, missing, needs) ==
    [validated |-> vs, missing_topics |-> missing, needs_reretrieval |-> needs]

\* validate_batch without the sort of line 68
validate_batch_Unsorted(cs, sqs, original_query, threshold) ==
    IF cs = <<>>
    THEN Returned(<<>>, [j \in 1..Len(sqs) |-> sqs[j].text], TRUE)
    ELSE LET vs == Keep(cs, original_query, threshold)
             missing == MissingTopics(vs, sqs)
         IN  Returned(vs, missing, NeedsReretrieval(vs, missing, sqs))

\* validate_batch asking for a retry only when fewer than 2 chunks are kept
validate_batch_TwoIsEnough(cs, sqs, original_query, threshold) ==
    IF cs = <<>>
    THEN Returned(<<>>, [j \in 1..Len(sqs) |-> sqs[j].text], TRUE)
    ELSE LET vs == SortByConfidence(Keep(cs, original_query, threshold))
             missing == MissingTopics(vs, sqs)
         IN  Returned(vs, missing,
                      Len(vs) < 2 \/ HighPriorityMissing(missing, sqs))

\* validate_batch whose short cut of line 49-50 returns no missing topics
validate_batch_EmptyNoTopics(cs, sqs, original_query, threshold) ==
    IF cs = <<>>
    THEN Returned(<<>>, <<>>, TRUE)
    ELSE LET vs == SortByConfidence(Keep(cs, original_query, threshold))
             missing == MissingTopics(vs, sqs)
         IN  Returned(vs, missing, NeedsReretrieval(vs, missing, sqs))

\* validate_batch keeping only the chunks above the threshold
validate_batch_StrictlyAbove(cs, sqs, original_query, threshold) ==
    IF cs = <<>>
    THEN Returned(<<>>, [j \in 1..Len(sqs) |-> sqs[j].text], TRUE)
    ELSE LET vs == SortByConfidence(Keep(cs, original_query, threshold + 1))
             missing == MissingTopics(vs, sqs)
         IN  Returned(vs, missing, NeedsReretrieval(vs, missing, sqs))

\* ValidatorAgent.validate_batch(chunks, sub_queries, original_query), with
\* self.min_confidence = threshold
validate_batch(cs, sqs, original_query, threshold) ==
    IF cs = <<>>
    THEN Returned(<<>>, [j \in 1..Len(sqs) |-> sqs[j].text], TRUE)
    ELSE LET vs == SortByConfidence(Keep(cs, original_query, threshold))
             missing == MissingTopics(vs, sqs)
         IN  Returned(vs, missing, NeedsReretrieval(vs, missing, sqs))

-----------------------------------------------------------------------------
(* RAGPipeline *)

\* len(w) of the words of the vocabulary
WordLen(w) ==
    CASE w \in {"AWS", "aws", "for"} -> 3
      [] w \in {"Docker", "docker", "deploy"} -> 6
      [] w = "guide" -> 5
      [] w \in {"up", "on", "to", "ci"} -> 2
      [] w = "a" -> 1
      [] w = "how" -> 3
      [] w = "pipeline" -> 8
      [] w = "text190" -> 190      \* a run of 190 characters without a blank
      [] w = "Error" -> 5
      [] w = "generating" -> 10
      [] w = "response:" -> 9
      [] OTHER -> 4

\* len(text): the words and one blank between two of them
RECURSIVE CharLen(_)
CharLen(text) ==
    IF text = <<>> THEN 0
    ELSE WordLen(Head(text)) + (IF Len(text) > 1 THEN 1 ELSE 0)
         + CharLen(Tail(text))

\* sq.priority + 1 raises TypeError unless the priority is a number
CanAddOne(priority) == priority.t = "int"

\* RAGPipeline._expand_queries(sub_queries), when no addition raises
RECURSIVE _expand_queries(_)
_expand_queries(sqs) ==
    IF sqs = <<>> THEN <<>>
    ELSE LET sq == Head(sqs)
         IN  <<sq, SubQuery(<<"guide", "for">> \o sq.text,
                            JInt(sq.priority.n + 1))>>
             \o _expand_queries(Tail(sqs))

ExpandRaises(sqs) == \E j \in 1..Len(sqs) : ~CanAddOne(sqs[j].priority)

\* _deduplicate_validated returning its argument
_deduplicate_validated_KeepsAll(vs) == vs

\* RAGPipeline._deduplicate_validated(validated)
RECURSIVE Dedup(_, _)
Dedup(vs, seen) ==
    IF vs = <<>> THEN <<>>
    ELSE IF Head(vs).chunk.chunk_id \in seen
         THEN Dedup(Tail(vs), seen)
         ELSE <<Head(vs)>>
              \o Dedup(Tail(vs), seen \cup {Head(vs).chunk.chunk_id})

_deduplicate_validated(vs) == Dedup(vs, {})

\* pipeline.py 72-75: the retried chunks as ValidatedChunk objects
Retried(cs) ==
    [i \in 1..Len(cs) |->
        ValidatedChunk(cs[i], cs[i].relevance_score, "Retry retrieval")]

\* pipeline.py 72-77 followed by a sort by confidence
Merged_Resorted(vs, additional) ==
    SortByConfidence(_deduplicate_validated(vs \o Retried(additional)))

\* pipeline.py 72-77
Merged(vs, additional) == _deduplicate_validated(vs \o Retried(additional))

RECURSIVE SumContentLen(_)
SumContentLen(vs) ==
    IF vs = <<>> THEN 0
    ELSE CharLen(Head(vs).chunk.content) + SumContentLen(Tail(vs))

\* RAGPipeline._estimate_tokens(query, answer, validated)
_estimate_tokens(q, ans, vs) ==
    (CharLen(q) \div 4) + (CharLen(ans) \div 4) + (SumContentLen(vs) \div 4)
    + 100

RECURSIVE SumConfidence(_)
SumConfidence(vs) ==
    IF vs = <<>> THEN 0 ELSE Head(vs).confidence + SumConfidence(Tail(vs))

\* the mean confidence of all validated chunks
_calculate_confidence_OfAll(vs) ==
    IF vs = <<>> THEN 0
    ELSE (6 * SumConfidence(vs)) \div Len(vs)

\* RAGPipeline._calculate_confidence(validated), in units of 1/(6 * Scale):
\* the mean of up to 3 values is a whole number of sixths
_calculate_confidence(vs) ==
    IF vs = <<>> THEN 0
    ELSE LET top_confidences == Take(vs, 3)
         IN  (6 * SumConfidence(top_confidences)) \div Len(top_confidences)

\* the preview cut as soon as the content has 200 characters
ContentPreview_CutFrom200(content) ==
    IF CharLen(content) >= 200
    THEN [of |-> content, kept |-> 200, suffix |-> 3]
    ELSE [of |-> content, kept |-> CharLen(content), suffix |-> 0]

\* pipeline.py 91: the preview is the first `kept` characters of the content
\* and `suffix` characters more ("...")
ContentPreview(content) ==
    IF CharLen(content) > 200
    THEN [of |-> content, kept |-> 200, suffix |-> 3]
    ELSE [of |-> content, kept |-> CharLen(content), suffix |-> 0]

\* pipeline.py 86-94; chunk_id is history: the chunk the Source was built of
Sources(vs, n) ==
    [i \in 1..Len(Take(vs, n)) |->
        [document |-> vs[i].chunk.document,
         section |-> vs[i].chunk.section,
         relevance_score |-> vs[i].confidence,
         content_preview |-> ContentPreview(vs[i].chunk.content),
         chunk_id |-> vs[i].chunk.chunk_id]]

\* pipeline.py 96-108 (without the wall-clock time and the model name)
RAGResult(q, ans, vs, n, sqs) ==
    [answer |-> ans,
     sources |-> Sources(vs, n),
     metadata |->
        [tokens_used |-> _estimate_tokens(q, ans, vs),
         confidence |-> _calculate_confidence(vs),
         sub_queries |-> [j \in 1..Len(sqs) |-> sqs[j].text]]]

NoResult == [answer |-> <<>>, sources |-> <<>>,
             metadata |-> [tokens_used |-> 0, confidence |-> 0,
                           sub_queries |-> <<>>]]

-----------------------------------------------------------------------------
(* The inputs and the environments' choices *)

MaxEntries == 2      \* entries of a planner response
MaxHits == 3         \* hits of one query result in a pipeline run
MaxSources == 2      \* max_sources of a pipeline run

T1 == <<"docker">>
T2 == <<"AWS", "deploy">>

Member(k, v) == [k |-> k, v |-> v]

\* the priority field of an entry: numbers, a string, null
Priorities == {JInt(1), JInt(2), JStr(<<"high">>), JNull}

\* the items a response may hold: entries with and without a text and a
\* priority, and values that are no entry
Entries ==
    {JDict(<<Member("query", JStr(t)), Member("priority", p)>>) :
        t \in {T1, T2}, p \in Priorities}
    \cup {JDict(<<Member("text", JStr(T2))>>),
          JDict(<<Member("query", JStr(<<>>)), Member("text", JStr(T1))>>),
          JDict(<<Member("priority", JInt(1))>>),
          JStr(T1), JInt(7)}

EntryLists == UNION {[1..n -> Entries] : n \in 0..MaxEntries}

\* what the completion service may do for plan(): fail, no content, text
\* that is no JSON, and JSON of every shape the planner tells apart
PlanResponses ==
    {[kind |-> k, data |-> JNull] : k \in {"raise", "none", "invalid"}}
    \cup {[kind |-> "json", data |-> d] : d \in
            {JList(l) : l \in EntryLists}
            \cup {JDict(<<Member(k, JList(l))>>) :
                    k \in {"sub_queries", "queries", "results"},
                    l \in EntryLists}
            \cup {JDict(<<Member("results", JList(<<e1>>)),
                          Member("queries", JList(<<e2>>))>>) :
                    e1 \in Entries, e2 \in Entries}
            \cup {JDict([i \in 1..Len(l) |->
                            Member(IF i = 1 THEN "a" ELSE "b", l[i])]) :
                    l \in EntryLists}
            \cup {JDict(<<Member("queries", v)>>) :
                    v \in {JInt(7), JNull, JStr(T1),
                           JDict(<<Member("a", JStr(T1))>>)}}
            \cup {JInt(7), JStr(T1), JNull}}

\* the responses of a pipeline run: one of each outcome of plan()
PipelineResponses ==
    {[kind |-> "raise", data |-> JNull]}
    \cup {[kind |-> "json", data |-> d] : d \in
            {JList(<<JDict(<<Member("query", JStr(T1)),
                             Member("priority", p)>>)>>) :
                p \in {JInt(1), JInt(2), JStr(<<"high">>)}}
            \cup {JDict(<<Member("queries",
                    JList(<<JDict(<<Member("query", JStr(T2))>>)>>))>>)}}

Queries == {<<"AWS", "docker">>, <<"docker">>}

\* cosine distances (scaled): 0, 0.4, 1, 2
Distances ==
    {Float(0), Float((4 * Scale) \div 10), Float(Scale), Float(2 * Scale)}
PipelineDistances == {Float((4 * Scale) \div 10)}

Stores == {{}, {"c1", "c2", "c3"}}

\* the results the store of a pipeline run may return, by store and n_results
PipelineResults ==
    [ids \in Stores |-> [k \in {3, 5} |->
        QueryResults(ids, k, PipelineDistances, MaxHits)]]

\* what the completion service may answer to synthesize(), as a string
Answers == {<<>>, <<"deploy", "docker">>}

ErrorString == <<"Error", "generating", "response:">>

\* an entry of the history of stages: the stage, the top_k of a retrieval,
\* the needs_reretrieval a validation returned
Stage(name, k, needs) == [stage |-> name, top_k |-> k, needs |-> needs]

-----------------------------------------------------------------------------
(* The actions *)

\* pipeline.py 58 and the call of line 61
Plan(responses) ==
    /\ pc = "plan"
    /\ \E r \in responses :
        /\ plan_response' = r
        /\ sub_queries' = plan(query, r)
    /\ trace' = Append(trace, Stage("plan", 0, FALSE))
    /\ pass' = 1
    /\ rq' = sub_queries'
    /\ top_k' = 5
    /\ ri' = 1
    /\ all_chunks' = <<>>
    /\ seen_ids' = {}
    /\ served' = <<>>
    /\ pc' = "retrieve"
    /\ UNCHANGED <<gen, words, events,
                   query, max_sources, min_confidence, min_confidence_arg,
                   store, chunks, scores, validated, missing_topics,
                   needs_reretrieval, additional_chunks,
                   synth_chunks, context, answer,
                   result, raised>>

\* retrieve_parallel has returned and process moves on: its frame is gone
FrameGone ==
    /\ rq' = <<>>
    /\ top_k' = 0
    /\ ri' = 0
    /\ all_chunks' = <<>>
    /\ seen_ids' = {}
    /\ served' = <<>>

\* an exception leaves process: its locals are gone
Unwound ==
    /\ plan_response' = [kind |-> "unset", data |-> JNull]
    /\ sub_queries' = <<>>
    /\ pass' = 0
    /\ rq' = <<>>
    /\ top_k' = 0
    /\ ri' = 0
    /\ all_chunks' = <<>>
    /\ seen_ids' = {}
    /\ served' = <<>>
    /\ chunks' = <<>>
    /\ scores' = <<>>
    /\ validated' = <<>>
    /\ missing_topics' = <<>>
    /\ needs_reretrieval' = FALSE
    /\ additional_chunks' = <<>>
    /\ synth_chunks' = <<>>
    /\ context' = <<>>
    /\ answer' = JNull

\* retriever.py 52: embed_single raises; nothing in retrieve_parallel or in
\* process catches it
EmbedRaises ==
    /\ pc = "retrieve"
    /\ trace' = IF ri = 1 THEN Append(trace, Stage("retrieve", top_k, FALSE))
                ELSE trace
    /\ raised' = "EmbeddingError"
    /\ pc' = "raised"
    /\ Unwound
    /\ UNCHANGED <<gen, words, events,
                   query, max_sources, min_confidence, min_confidence_arg,
                   store, result>>

\* retriever.py 55: vector_store.query raises
QueryRaises ==
    /\ pc = "retrieve"
    /\ trace' = IF ri = 1 THEN Append(trace, Stage("retrieve", top_k, FALSE))
                ELSE trace
    /\ raised' = "SearchError"
    /\ pc' = "raised"
    /\ Unwound
    /\ UNCHANGED <<gen, words, events,
                   query, max_sources, min_confidence, min_confidence_arg,
                   store, result>>

\* retriever.py 50-82 for sub-query rq[ri]; after the last one the sort of
\* line 85 and the return to process: line 61 (pass 1) or 71-77 (pass 2)
RetrieveOne(results) ==
    /\ pc = "retrieve"
    /\ trace' = IF ri = 1 THEN Append(trace, Stage("retrieve", top_k, FALSE))
                ELSE trace
    /\ \E hits \in results[store][top_k] :
        LET acc == AddHits([all_chunks |-> all_chunks, seen_ids |-> seen_ids],
                           hits)
            last == ri = Len(rq)
            out == SortByRelevance(acc.all_chunks)
        IN  /\ served' = Record(served, hits)
            /\ seen_ids' = acc.seen_ids
            /\ ri' = ri + 1
            /\ all_chunks' = IF last THEN out ELSE acc.all_chunks
            /\ chunks' = IF last /\ pass = 1 THEN out ELSE chunks
            /\ additional_chunks' =
                    IF last /\ pass = 2 THEN out ELSE additional_chunks
            /\ validated' =
                    IF last /\ pass = 2 THEN Merged(validated, out)
                    ELSE validated
            /\ pc' = IF ~last THEN "retrieve"
                     ELSE IF pass = 1 THEN "validate" ELSE "synthesize"
    /\ UNCHANGED <<gen, words, events,
                   query, max_sources, min_confidence, min_confidence_arg,
                   plan_response, sub_queries, store, pass, rq, top_k, scores,
                   missing_topics, needs_reretrieval,
                   synth_chunks, context, answer,
                   result, raised>>

\* pipeline.py 64-66
ValidateBatch ==
    /\ pc = "validate"
    /\ LET r == validate_batch(chunks, sub_queries, query, min_confidence)
       IN  /\ validated' = r.validated
           /\ missing_topics' = r.missing_topics
           /\ needs_reretrieval' = r.needs_reretrieval
    /\ scores' = [i \in 1..Len(chunks) |-> _validate_single(chunks[i], query)]
    /\ trace' = Append(trace, Stage("validate", 0, needs_reretrieval'))
    /\ pc' = "branch"
    /\ FrameGone
    /\ UNCHANGED <<gen, words, events,
                   query, max_sources, min_confidence, min_confidence_arg,
                   plan_response, sub_queries, store, pass, chunks,
                   additional_chunks,
                   synth_chunks, context, answer, result, raised>>

\* pipeline.py 69, needs_reretrieval false
NoRetry ==
    /\ pc = "branch"
    /\ ~needs_reretrieval
    /\ pc' = "synthesize"
    /\ UNCHANGED <<gen, words, events,
                   query, max_sources, min_confidence, min_confidence_arg,
                   plan_response, sub_queries, store, pass, rq, top_k, ri,
                   all_chunks, seen_ids, served, chunks, scores, validated,
                   missing_topics, needs_reretrieval, additional_chunks,
                   synth_chunks, context, answer, result, raised, trace>>

\* the second retrieval taken whatever validate_batch returned
Retry_WithoutNeed ==
    /\ pc = "branch"
    /\ ~ExpandRaises(sub_queries)
    /\ pass' = 2
    /\ rq' = _expand_queries(sub_queries)
    /\ top_k' = 3
    /\ ri' = 1
    /\ all_chunks' = <<>>
    /\ seen_ids' = {}
    /\ served' = <<>>
    /\ pc' = "retrieve"
    /\ UNCHANGED <<gen, words, events,
                   query, max_sources, min_confidence, min_confidence_arg,
                   plan_response, sub_queries, store, chunks, scores,
                   validated, missing_topics, needs_reretrieval,
                   additional_chunks,
                   synth_chunks, context, answer, result, raised,
                   trace>>

\* pipeline.py 69-71: the expanded queries and the call of retrieve_parallel
Retry ==
    /\ pc = "branch"
    /\ needs_reretrieval
    /\ ~ExpandRaises(sub_queries)
    /\ pass' = 2
    /\ rq' = _expand_queries(sub_queries)
    /\ top_k' = 3
    /\ ri' = 1
    /\ all_chunks' = <<>>
    /\ seen_ids' = {}
    /\ served' = <<>>
    /\ pc' = "retrieve"
    /\ UNCHANGED <<gen, words, events,
                   query, max_sources, min_confidence, min_confidence_arg,
                   plan_response, sub_queries, store, chunks, scores,
                   validated, missing_topics, needs_reretrieval,
                   additional_chunks,
                   synth_chunks, context, answer, result, raised,
                   trace>>

\* pipeline.py 70, 118: sq.priority + 1 raises on a priority that is no number
ExpandFails ==
    /\ pc = "branch"
    /\ needs_reretrieval
    /\ ExpandRaises(sub_queries)
    /\ raised' = "TypeError"
    /\ pc' = "raised"
    /\ trace' = trace
    /\ Unwound
    /\ UNCHANGED <<gen, words, events,
                   query, max_sources, min_confidence, min_confidence_arg,
                   store, result>>

\* synthesizer.py 52: the number of chunks the context is built from
ContextChunks == 5

\* ResponseSynthesizer._build_context(validated_chunks): one part per chunk
\* of validated_chunks[:5], numbered from 1; a part is kept as its number
\* and the chunk it is rendered from
_build_context(validated_chunks) ==
    [i \in 1..Len(Take(validated_chunks, ContextChunks)) |->
        [number |-> i, vc |-> validated_chunks[i]]]

\* pipeline.py 80 with synthesizer.py 87-103: the completion's text, None
\* for a completion without content, the error string when the call raises
Synthesize ==
    /\ pc = "synthesize"
    /\ synth_chunks' = Take(validated, max_sources)
    /\ context' = _build_context(Take(validated, max_sources))
    /\ \E a \in {JStr(t) : t \in Answers \cup {ErrorString}} \cup {JNull} :
        answer' = a
    /\ trace' = Append(trace, Stage("synthesize", 0, FALSE))
    /\ pc' = "assemble"
    /\ FrameGone
    /\ UNCHANGED <<gen, words, events,
                   query, max_sources, min_confidence, min_confidence_arg,
                   plan_response, sub_queries, store, pass, chunks, scores,
                   validated, missing_topics, needs_reretrieval,
                   additional_chunks, result, raised>>

\* pipeline.py 83-108
Assemble ==
    /\ pc = "assemble"
    /\ answer.t = "str"
    /\ result' = RAGResult(query, answer.s, validated, max_sources,
                           sub_queries)
    /\ pc' = "returned"
    /\ UNCHANGED <<gen, words, events,
                   query, max_sources, min_confidence, min_confidence_arg,
                   plan_response, sub_queries, store, pass, rq, top_k, ri,
                   all_chunks, seen_ids, served, chunks, scores, validated,
                   missing_topics, needs_reretrieval, additional_chunks,
                   synth_chunks, context, answer, raised, trace>>

\* pipeline.py 98, 136: len(answer) raises when the answer is None
AssembleFails ==
    /\ pc = "assemble"
    /\ answer.t # "str"
    /\ raised' = "TypeError"
    /\ pc' = "raised"
    /\ trace' = trace
    /\ Unwound
    /\ UNCHANGED <<gen, words, events,
                   query, max_sources, min_confidence, min_confidence_arg,
                   store, result>>

-----------------------------------------------------------------------------
(* The pipeline: RAGPipeline() and one process(query, max_sources) *)

\* the locals of a run that has not started
Unset ==
    /\ plan_response = [kind |-> "unset", data |-> JNull]
    /\ sub_queries = <<>>
    /\ pass = 0
    /\ rq = <<>>
    /\ top_k = 0
    /\ ri = 0
    /\ all_chunks = <<>>
    /\ seen_ids = {}
    /\ served = <<>>
    /\ chunks = <<>>
    /\ scores = <<>>
    /\ validated = <<>>
    /\ missing_topics = <<>>
    /\ needs_reretrieval = FALSE
    /\ additional_chunks = <<>>
    /\ synth_chunks = <<>>
    /\ context = <<>>
    /\ answer = JNull
    /\ result = NoResult
    /\ raised = "none"
    /\ trace = <<>>
    /\ words = <<>>
    /\ events = <<>>

Init ==
    /\ pc = "plan"
    /\ gen = "off"
    /\ query \in Queries
    /\ max_sources \in 1..MaxSources
    /\ min_confidence_arg = NoArg
    /\ min_confidence = ValidatorInit(min_confidence_arg)
    /\ store \in Stores
    /\ Unset

Next ==
    \/ Plan(PipelineResponses)
    \/ EmbedRaises
    \/ QueryRaises
    \/ RetrieveOne(PipelineResults)
    \/ ValidateBatch
    \/ NoRetry
    \/ Retry
    \/ ExpandFails
    \/ Synthesize
    \/ Assemble
    \/ AssembleFails

Spec == Init /\ [][Next]_vars

-----------------------------------------------------------------------------
(* QueryPlanner.plan alone, over every response shape *)

PlanQueries == {<<>>, T1, <<"AWS", "docker">>}

InitPlan ==
    /\ pc = "plan"
    /\ gen = "off"
    /\ query \in PlanQueries
    /\ max_sources = 5
    /\ min_confidence_arg = NoArg
    /\ min_confidence = ValidatorInit(min_confidence_arg)
    /\ store = {}
    /\ Unset

NextPlan == Plan(PlanResponses)

SpecPlan == InitPlan /\ [][NextPlan]_vars

-----------------------------------------------------------------------------
(* RetrieverAgent.retrieve_parallel alone, over ranked results with        *)
(* different distances                                                     *)

RetrieveStores == {{"c1", "c2", "c3"}}

RetrieveResults ==
    [ids \in RetrieveStores |-> [k \in {3, 5} |->
        QueryResults(ids, k, Distances, MaxHits)]]

\* the sub_queries argument: one sub-query, two sub-queries
RetrieveInputs ==
    {<<SubQuery(T1, JInt(1))>>,
     <<SubQuery(T1, JInt(1)), SubQuery(T2, JInt(2))>>}

InitRetrieve ==
    /\ pc = "retrieve"
    /\ query = <<"AWS", "docker">>
    /\ max_sources = 5
    /\ min_confidence_arg = NoArg
    /\ min_confidence = ValidatorInit(min_confidence_arg)
    /\ store \in RetrieveStores
    /\ plan_response = [kind |-> "unset", data |-> JNull]
    /\ sub_queries \in RetrieveInputs
    /\ pass = 1
    /\ rq = sub_queries
    /\ top_k \in {3, 5}
    /\ ri = 1
    /\ all_chunks = <<>>
    /\ seen_ids = {}
    /\ served = <<>>
    /\ chunks = <<>>
    /\ scores = <<>>
    /\ validated = <<>>
    /\ missing_topics = <<>>
    /\ needs_reretrieval = FALSE
    /\ additional_chunks = <<>>
    /\ synth_chunks = <<>>
    /\ context = <<>>
    /\ answer = JNull
    /\ result = NoResult
    /\ raised = "none"
    /\ trace = <<>>
    /\ gen = "off"
    /\ words = <<>>
    /\ events = <<>>

NextRetrieve ==
    \/ EmbedRaises
    \/ QueryRaises
    \/ RetrieveOne(RetrieveResults)

SpecRetrieve == InitRetrieve /\ [][NextRetrieve]_vars

-----------------------------------------------------------------------------
(* retrieve_parallel for one sub-query, over distances inside and outside  *)
(* [0, 2] and hits without a distance                                      *)

\* -1, -0.4, 0, 0.4, 1, 1.6, 2, 2.4, 3, and None
ScoreDistances ==
    {Float(0 - Scale), Float(0 - ((4 * Scale) \div 10)), Float(0),
     Float((4 * Scale) \div 10), Float(Scale), Float((16 * Scale) \div 10),
     Float(2 * Scale), Float((24 * Scale) \div 10), Float(3 * Scale), None}

ScoreResults ==
    [ids \in RetrieveStores |-> [k \in {3, 5} |->
        QueryResults(ids, k, ScoreDistances, MaxHits)]]

InitScore ==
    /\ pc = "retrieve"
    /\ query = T1
    /\ max_sources = 5
    /\ min_confidence_arg = NoArg
    /\ min_confidence = ValidatorInit(min_confidence_arg)
    /\ store \in RetrieveStores
    /\ plan_response = [kind |-> "unset", data |-> JNull]
    /\ sub_queries = <<SubQuery(T1, JInt(1))>>
    /\ pass = 1
    /\ rq = sub_queries
    /\ top_k \in {3, 5}
    /\ ri = 1
    /\ all_chunks = <<>>
    /\ seen_ids = {}
    /\ served = <<>>
    /\ chunks = <<>>
    /\ scores = <<>>
    /\ validated = <<>>
    /\ missing_topics = <<>>
    /\ needs_reretrieval = FALSE
    /\ additional_chunks = <<>>
    /\ synth_chunks = <<>>
    /\ context = <<>>
    /\ answer = JNull
    /\ result = NoResult
    /\ raised = "none"
    /\ trace = <<>>
    /\ gen = "off"
    /\ words = <<>>
    /\ events = <<>>

NextScore == RetrieveOne(ScoreResults)

SpecScore == InitScore /\ [][NextScore]_vars

-----------------------------------------------------------------------------
(* ValidatorAgent(min_confidence).validate_batch alone, over the chunk     *)
(* lists retrieve_parallel can return                                      *)

MaxChunks == 3       \* chunks handed to validate_batch

CorpusIds == {"c1", "c2", "c3", "c4"}

\* lists of chunks with different ids, sorted by relevance_score
ValidateChunks ==
    LET cs == {RetrievedChunk(id, d) : id \in CorpusIds, d \in Distances}
    IN  {l \in UNION {[1..n -> cs] : n \in 0..MaxChunks} :
            /\ \A i, j \in 1..Len(l) : i # j => l[i].chunk_id # l[j].chunk_id
            /\ \A i \in 1..(Len(l) - 1) :
                    l[i].relevance_score >= l[i + 1].relevance_score}

ValidateQueries ==
    {<<>>, <<"AWS", "docker">>, <<"docker", "Docker", "deploy">>,
     <<"aws", "guide", "for">>}

ValidateSubQueries ==
    {<<SubQuery(T1, JInt(1))>>,
     <<SubQuery(T2, JInt(2))>>,
     <<SubQuery(T2, JInt(1)), SubQuery(T1, JInt(2))>>,
     <<SubQuery(T1, JInt(2)), SubQuery(<<"guide", "for", "aws">>, JInt(1))>>,
     <<SubQuery(T1, JStr(<<"high">>)), SubQuery(T1, JInt(1))>>}

\* ValidatorAgent(), ValidatorAgent(0.0), ValidatorAgent(-0.5),
\* ValidatorAgent(0.3), ValidatorAgent(0.9)
ValidateArgs ==
    {NoArg, Arg(0), Arg(0 - (Scale \div 2)), Arg((3 * Scale) \div 10),
     Arg((9 * Scale) \div 10)}

InitValidate ==
    /\ pc = "validate"
    /\ query \in ValidateQueries
    /\ max_sources = 5
    /\ min_confidence_arg \in ValidateArgs
    /\ min_confidence = ValidatorInit(min_confidence_arg)
    /\ store = CorpusIds
    /\ plan_response = [kind |-> "unset", data |-> JNull]
    /\ sub_queries \in ValidateSubQueries
    /\ pass = 1
    /\ rq = <<>>
    /\ top_k = 0
    /\ ri = 0
    /\ all_chunks = <<>>
    /\ seen_ids = {}
    /\ served = <<>>
    /\ chunks \in ValidateChunks
    /\ scores = <<>>
    /\ validated = <<>>
    /\ missing_topics = <<>>
    /\ needs_reretrieval = FALSE
    /\ additional_chunks = <<>>
    /\ synth_chunks = <<>>
    /\ context = <<>>
    /\ answer = JNull
    /\ result = NoResult
    /\ raised = "none"
    /\ trace = <<>>
    /\ gen = "off"
    /\ words = <<>>
    /\ events = <<>>

NextValidate == ValidateBatch

SpecValidate == InitValidate /\ [][NextValidate]_vars

-----------------------------------------------------------------------------
(* process from validate_batch to the merge of the re-retrieved chunks,    *)
(* over chunk lists and second-pass results of different scores            *)

MaxRetryChunks == 2  \* chunks of the first pass

\* lists of chunks of the first pass: different ids, sorted by score
RetryChunks ==
    LET cs == {RetrievedChunk(id, d) :
                    id \in {"c1", "c2", "c3"}, d \in {Float(0), Float(Scale)}}
    IN  {l \in UNION {[1..n -> cs] : n \in 0..MaxRetryChunks} :
            /\ \A i, j \in 1..Len(l) : i # j => l[i].chunk_id # l[j].chunk_id
            /\ \A i \in 1..(Len(l) - 1) :
                    l[i].relevance_score >= l[i + 1].relevance_score}

\* the results of the second pass: distances 0.4 and 1
RetryResults ==
    [ids \in RetrieveStores |-> [k \in {3, 5} |->
        QueryResults(ids, k, {Float((4 * Scale) \div 10), Float(Scale)},
                     MaxHits)]]

InitRetry ==
    /\ pc = "validate"
    /\ query \in Queries
    /\ max_sources = 5
    /\ min_confidence_arg = NoArg
    /\ min_confidence = ValidatorInit(min_confidence_arg)
    /\ store \in RetrieveStores
    /\ plan_response = [kind |-> "unset", data |-> JNull]
    /\ sub_queries = <<SubQuery(T1, JInt(1))>>
    /\ pass = 1
    /\ rq = <<>>
    /\ top_k = 0
    /\ ri = 0
    /\ all_chunks = <<>>
    /\ seen_ids = {}
    /\ served = <<>>
    /\ chunks \in RetryChunks
    /\ scores = <<>>
    /\ validated = <<>>
    /\ missing_topics = <<>>
    /\ needs_reretrieval = FALSE
    /\ additional_chunks = <<>>
    /\ synth_chunks = <<>>
    /\ context = <<>>
    /\ answer = JNull
    /\ result = NoResult
    /\ raised = "none"
    /\ trace = <<>>
    /\ gen = "off"
    /\ words = <<>>
    /\ events = <<>>

NextRetry ==
    \/ ValidateBatch
    \/ Retry
    \/ RetrieveOne(RetryResults)

SpecRetry == InitRetry /\ [][NextRetry]_vars

-----------------------------------------------------------------------------
(* process from the call of the synthesizer to its return, over the final  *)
(* validated lists of runs with and without a re-retrieval                 *)

AssembleIds == {"c1", "c2", "c5", "c6"}

\* lists of chunks with different ids, all at distance d
ChunkLists(ids, d, n) ==
    LET cs == {RetrievedChunk(id, d) : id \in ids}
    IN  {l \in UNION {[1..m -> cs] : m \in 0..n} :
            \A i, j \in 1..Len(l) : i # j => l[i].chunk_id # l[j].chunk_id}

\* the chunks of the first pass (distance 0.4)
AssembleChunks == ChunkLists(AssembleIds, Float((4 * Scale) \div 10), MaxChunks)

\* the chunks of a second pass (distance 1)
AssembleRetried == ChunkLists(AssembleIds, Float(Scale), MaxRetryChunks)

\* hits of the second pass that give the chunks of the list
HitsOf(cs) == [i \in 1..Len(cs) |-> Hit(cs[i].chunk_id, Float(Scale))]

\* a run up to the call of line 80: the planner fell back to the query, the
\* first pass gave `chunks`, and a second pass, when there was one, gave
\* its chunks for the first expanded sub-query
InitAssemble ==
    /\ pc = "synthesize"
    /\ query \in Queries
    /\ max_sources \in 1..MaxSources
    /\ min_confidence_arg = NoArg
    /\ min_confidence = ValidatorInit(min_confidence_arg)
    /\ store = AssembleIds
    /\ plan_response = [kind |-> "raise", data |-> JNull]
    /\ sub_queries = plan(query, plan_response)
    /\ chunks \in AssembleChunks
    /\ scores = [i \in 1..Len(chunks) |-> _validate_single(chunks[i], query)]
    /\ \E add \in AssembleRetried :
        LET r == validate_batch(chunks, sub_queries, query, min_confidence)
            again == r.needs_reretrieval
        IN  /\ missing_topics = r.missing_topics
            /\ needs_reretrieval = again
            /\ pass = IF again THEN 2 ELSE 1
            /\ rq = IF again THEN _expand_queries(sub_queries) ELSE <<>>
            /\ top_k = IF again THEN 3 ELSE 0
            /\ ri = IF again THEN Len(rq) + 1 ELSE 0
            /\ all_chunks = IF again THEN add ELSE <<>>
            /\ seen_ids = IF again THEN {add[i].chunk_id : i \in 1..Len(add)}
                          ELSE {}
            /\ served = IF again THEN Record(<<>>, HitsOf(add)) ELSE <<>>
            /\ additional_chunks = IF again THEN add ELSE <<>>
            /\ validated = IF again THEN Merged(r.validated, add)
                           ELSE r.validated
            /\ trace = <<Stage("plan", 0, FALSE), Stage("retrieve", 5, FALSE),
                         Stage("validate", 0, again)>>
                       \o (IF again THEN <<Stage("retrieve", 3, FALSE)>>
                           ELSE <<>>)
    /\ synth_chunks = <<>>
    /\ context = <<>>
    /\ answer = JNull
    /\ result = NoResult
    /\ raised = "none"
    /\ gen = "off"
    /\ words = <<>>
    /\ events = <<>>

NextAssemble ==
    \/ Synthesize
    \/ Assemble
    \/ AssembleFails

SpecAssemble == InitAssemble /\ [][NextAssemble]_vars

-----------------------------------------------------------------------------
(* process from the call of the synthesizer to its return, over validated  *)
(* lists of more than 5 chunks and max_sources above 5                     *)

MaxShown == 6        \* chunks of the first pass
MaxRequested == 6    \* max_sources (models.py 32 admits 1..10)

\* seven chunks holding the query's word, in two orders
ShownIds ==
    {<<"c1", "c2", "c6", "c7", "c8", "c9", "c5">>,
     <<"c5", "c9", "c8", "c7", "c6", "c2", "c1">>}

\* distances 0.4 and 0.5: every chunk passes the threshold
ShownDistances == {Float((4 * Scale) \div 10), Float(Scale \div 2)}

\* the first n chunks of a first pass over two sub-queries (top_k 5 each),
\* at distance d1 and d2 in turn
ShownChunks(ids, n, d1, d2) ==
    [i \in 1..n |-> RetrievedChunk(ids[i], IF i % 2 = 1 THEN d1 ELSE d2)]

\* a run up to the call of line 80: the planner gave two sub-queries, the
\* first pass gave `chunks`, and validation asked for no second pass
InitContext ==
    /\ pc = "synthesize"
    /\ query = T1
    /\ max_sources \in 1..MaxRequested
    /\ min_confidence_arg = NoArg
    /\ min_confidence = ValidatorInit(min_confidence_arg)
    /\ \E ids \in ShownIds, n \in 3..MaxShown, d1, d2 \in ShownDistances :
        /\ store = Range(ids)
        /\ chunks = ShownChunks(ids, n, d1, d2)
    /\ plan_response =
        [kind |-> "json",
         data |-> JList(<<JDict(<<Member("query", JStr(T1)),
                                  Member("priority", JInt(1))>>),
                          JDict(<<Member("query", JStr(T2)),
                                  Member("priority", JInt(2))>>)>>)]
    /\ sub_queries = plan(query, plan_response)
    /\ scores = [i \in 1..Len(chunks) |-> _validate_single(chunks[i], query)]
    /\ LET r == validate_batch(chunks, sub_queries, query, min_confidence)
       IN  /\ ~r.needs_reretrieval
           /\ validated = r.validated
           /\ missing_topics = r.missing_topics
           /\ needs_reretrieval = r.needs_reretrieval
    /\ pass = 1
    /\ rq = <<>>
    /\ top_k = 0
    /\ ri = 0
    /\ all_chunks = <<>>
    /\ seen_ids = {}
    /\ served = <<>>
    /\ additional_chunks = <<>>
    /\ trace = <<Stage("plan", 0, FALSE), Stage("retrieve", 5, FALSE),
                 Stage("validate", 0, FALSE)>>
    /\ synth_chunks = <<>>
    /\ context = <<>>
    /\ answer = JNull
    /\ result = NoResult
    /\ raised = "none"
    /\ gen = "off"
    /\ words = <<>>
    /\ events = <<>>

NextContext ==
    \/ Synthesize
    \/ Assemble
    \/ AssembleFails

SpecContext == InitContext /\ [][NextContext]_vars

-----------------------------------------------------------------------------
(* validate_batch over lists of more than 5 chunks and a sub-query of 10   *)
(* words                                                                   *)

MaxCovered == 6      \* chunks handed to validate_batch

CoverageIds == {"c1", "c2", "c3", "c6", "c7", "c8", "c9"}

\* ten different words, three of them in c1 and four in c9
T10 == <<"how", "to", "deploy", "docker", "on", "AWS", "with", "a", "ci",
         "pipeline">>

CoverageSubQueries ==
    {<<SubQuery(T2, JInt(1))>>,
     <<SubQuery(T10, JInt(2))>>,
     <<SubQuery(T2, JInt(2)), SubQuery(T10, JInt(1))>>,
     <<SubQuery(<<>>, JInt(1)), SubQuery(T1, JInt(1))>>}

InitCoverage ==
    /\ pc = "validate"
    /\ query = T1
    /\ max_sources = 5
    /\ min_confidence_arg = NoArg
    /\ min_confidence = ValidatorInit(min_confidence_arg)
    /\ store = CoverageIds
    /\ plan_response = [kind |-> "unset", data |-> JNull]
    /\ sub_queries \in CoverageSubQueries
    /\ pass = 1
    /\ rq = <<>>
    /\ top_k = 0
    /\ ri = 0
    /\ all_chunks = <<>>
    /\ seen_ids = {}
    /\ served = <<>>
    /\ chunks \in ChunkLists(CoverageIds, Float((4 * Scale) \div 10),
                              MaxCovered)
    /\ scores = <<>>
    /\ validated = <<>>
    /\ missing_topics = <<>>
    /\ needs_reretrieval = FALSE
    /\ additional_chunks = <<>>
    /\ synth_chunks = <<>>
    /\ context = <<>>
    /\ answer = JNull
    /\ result = NoResult
    /\ raised = "none"
    /\ trace = <<>>
    /\ gen = "off"
    /\ words = <<>>
    /\ events = <<>>

NextCoverage == ValidateBatch

SpecCoverage == InitCoverage /\ [][NextCoverage]_vars

-----------------------------------------------------------------------------
(* query_stream: event_generator around one run of process                 *)

run_vars == <<pc, query, max_sources, min_confidence, min_confidence_arg,
              plan_response, sub_queries, store, pass, rq, top_k, ri,
              all_chunks, seen_ids, served, chunks, scores, validated,
              missing_topics, needs_reretrieval, additional_chunks,
              synth_chunks, context, answer, result, raised, trace>>

\* one server-sent event: its key, and the word of a token event
Event(kind, word) == [kind |-> kind, word |-> word]

\* main.py 241: words = result.answer.split()
StreamWords ==
    /\ gen = "process"
    /\ pc = "returned"
    /\ words' = result.answer
    /\ gen' = "tokens"
    /\ UNCHANGED <<events, run_vars>>

\* main.py 242-243: one token event
StreamToken ==
    /\ gen = "tokens"
    /\ words # <<>>
    /\ events' = Append(events, Event("token", Head(words)))
    /\ words' = Tail(words)
    /\ UNCHANGED <<gen, run_vars>>

\* the sources event sent inside the loop over the words
StreamSources_Early ==
    /\ gen = "tokens"
    /\ events' = Append(events, Event("sources", ""))
    /\ gen' = IF words = <<>> THEN "metadata" ELSE "tokens"
    /\ UNCHANGED <<words, run_vars>>

\* main.py 246-253: the sources event, after the loop over the words
StreamSources ==
    /\ gen = "tokens"
    /\ words = <<>>
    /\ events' = Append(events, Event("sources", ""))
    /\ gen' = "metadata"
    /\ UNCHANGED <<words, run_vars>>

\* main.py 255-262
StreamMetadata ==
    /\ gen = "metadata"
    /\ events' = Append(events, Event("metadata", ""))
    /\ gen' = "done"
    /\ UNCHANGED <<words, run_vars>>

\* main.py 265: the done event; the generator ends
StreamDone ==
    /\ gen = "done"
    /\ events' = Append(events, Event("done", ""))
    /\ gen' = "closed"
    /\ UNCHANGED <<words, run_vars>>

\* main.py 267-268: an exception of process is caught and sent as the error
\* event; the generator ends
StreamError ==
    /\ gen = "process"
    /\ pc = "raised"
    /\ events' = Append(events, Event("error", raised))
    /\ gen' = "closed"
    /\ UNCHANGED <<words, run_vars>>

InitStream ==
    /\ pc = "plan"
    /\ gen = "process"
    /\ query \in Queries
    /\ max_sources \in 1..MaxSources
    /\ min_confidence_arg = NoArg
    /\ min_confidence = ValidatorInit(min_confidence_arg)
    /\ store \in Stores
    /\ Unset

NextStream ==
    \/ Next
    \/ StreamWords
    \/ StreamToken
    \/ StreamSources
    \/ StreamMetadata
    \/ StreamDone
    \/ StreamError

SpecStream == InitStream /\ [][NextStream]_vars

-----------------------------------------------------------------------------
(* The claims *)

PlanReturned == plan_response.kind # "unset"

\* a dict with a non-empty "query" or "text"
HasText(v) ==
    /\ v.t = "dict"
    /\ \E i \in 1..Len(v.members) :
        v.members[i].k \in {"query", "text"} /\ Truthy(v.members[i].v)

Inside(v) == Range(v.items) \cup {v.members[i].v : i \in 1..Len(v.members)}

\* no entry with a text anywhere in the decoded response
NoUsableEntry(data) ==
    \A v \in Inside(data) : ~HasText(v) /\ \A w \in Inside(v) : ~HasText(w)

Degraded(r) ==
    \/ r.kind \in {"raise", "none", "invalid"}
    \/ r.kind = "json" /\ NoUsableEntry(r.data)

\* C1: plan returns a non-empty list whatever the completion service does,
\* and exactly <<SubQuery(query, 1)>> when the call raises, has no content,
\* is no JSON or holds no usable entry.
C1_PlanNeverEmpty ==
    PlanReturned =>
        /\ Len(sub_queries) >= 1
        /\ Degraded(plan_response) =>
            sub_queries = <<[text |-> query, priority |-> JInt(1)]>>

\* a response that decodes to a dict of entries none of which has a text
C1_Witness ==
    /\ PlanReturned
    /\ plan_response.kind = "json"
    /\ plan_response.data.t = "dict"
    /\ HasKey(plan_response.data, "queries")
    /\ Len(Get(plan_response.data, "queries", JNull).items) = 2
    /\ NoUsableEntry(plan_response.data)
    /\ sub_queries = <<[text |-> query, priority |-> JInt(1)]>>

Distinct(ids) == \A i, j \in 1..Len(ids) : i # j => ids[i] # ids[j]

\* C2: the Sources of a returned result come from chunks with pairwise
\* different chunk_id, with and without the second retrieval.
C2_SourcesDistinct ==
    pc = "returned" =>
        Distinct([i \in 1..Len(result.sources) |-> result.sources[i].chunk_id])

\* a run whose second retrieval brought back a chunk validation had kept
C2_Witness ==
    /\ pc = "returned"
    /\ pass = 2
    /\ Len(result.sources) = 2
    /\ \E i \in 1..Len(additional_chunks), k \in 1..Len(chunks) :
        /\ additional_chunks[i].chunk_id = result.sources[1].chunk_id
        /\ chunks[k].chunk_id = result.sources[1].chunk_id

RetrieveReturned == Len(rq) > 0 /\ ri = Len(rq) + 1

\* C3: retrieve_parallel returns one chunk for each id the store served, with
\* the content, document, section and score of the first hit with that id.
C3_FirstHitKept ==
    RetrieveReturned =>
        /\ \A e \in Range(served) :
            \E i \in 1..Len(all_chunks) :
                /\ all_chunks[i].chunk_id = e.id
                /\ all_chunks[i].content = Content(e.id)
                /\ all_chunks[i].document = Document(e.id)
                /\ all_chunks[i].section = Section(e.id)
                /\ 2 * all_chunks[i].relevance_score = 2 * Scale - e.distance.x
                /\ \A j \in 1..Len(all_chunks) :
                    all_chunks[j].chunk_id = e.id => j = i
        /\ \A i \in 1..Len(all_chunks) :
            \E e \in Range(served) : e.id = all_chunks[i].chunk_id

\* two sub-queries, the second of which hit an id again, nearer
C3_Witness ==
    /\ RetrieveReturned
    /\ Len(rq) = 2
    /\ \E e \in Range(served) : e.beaten

IsRetrieve(e, k) == e.stage = "retrieve" /\ e.top_k = k

C6_NeverRaises == raised = "none"

\* C7: for an empty chunk list validate_batch returns no validated chunk,
\* the texts of all sub-queries in order, and needs_reretrieval = true.
C7_EmptyChunks ==
    (pc = "branch" /\ chunks = <<>>) =>
        /\ validated = <<>>
        /\ missing_topics = [j \in 1..Len(sub_queries) |-> sub_queries[j].text]
        /\ needs_reretrieval

C7_Witness ==
    /\ pc = "branch"
    /\ chunks = <<>>
    /\ Len(sub_queries) = 2
    /\ Len(missing_topics) = 2
    /\ missing_topics[1] # missing_topics[2]

\* C8: the validated list validate_batch returns is in non-increasing order
\* of confidence.
C8_SortedByConfidence ==
    pc = "branch" =>
        \A i \in 1..(Len(validated) - 1) :
            validated[i].confidence >= validated[i + 1].confidence

\* two kept chunks that came in the other order
C8_Witness ==
    /\ pc = "branch"
    /\ \E i, j \in 1..Len(chunks) :
        /\ i < j
        /\ scores[i].confidence >= min_confidence
        /\ scores[i].confidence < scores[j].confidence

\* the chunks kept at threshold t: each chunk at or above it once, no other
KeptExactly(t) ==
    /\ \A i \in 1..Len(chunks) :
        (scores[i].confidence >= t) <=>
            \E k \in 1..Len(validated) : validated[k].chunk = chunks[i]
    /\ \A k \in 1..Len(validated) :
        \E i \in 1..Len(chunks) :
            /\ validated[k].chunk = chunks[i]
            /\ validated[k].confidence = scores[i].confidence
    /\ Len(validated)
        = Cardinality({i \in 1..Len(chunks) : scores[i].confidence >= t})

\* C9 as stated: the threshold is the value the caller passed, whatever it
\* is, and 0.6 when none was passed.
C9_AnyValueOverrides ==
    pc = "branch" =>
        KeptExactly(IF min_confidence_arg.given THEN min_confidence_arg.value
                    ELSE (6 * Scale) \div 10)

\* C9, amended: validate_batch returns exactly the chunks whose confidence is
\* at or above the threshold, each once; the threshold is the value passed
\* when that value is greater than 0, and 0.6 when none or a value of 0 or
\* less was passed.
C9_PositiveValueOverrides ==
    pc = "branch" =>
        LET t == IF min_confidence_arg.given /\ min_confidence_arg.value > 0
                 THEN min_confidence_arg.value
                 ELSE (6 * Scale) \div 10
        IN  /\ min_confidence = t
            /\ KeptExactly(t)
            /\ \A k \in 1..Len(validated) : validated[k].confidence >= t

\* ValidatorAgent(0.9): a chunk exactly at 0.9 kept, another one dropped
C9_Witness ==
    /\ pc = "branch"
    /\ min_confidence_arg = Arg((9 * Scale) \div 10)
    /\ \E k \in 1..Len(validated) :
        validated[k].confidence = (9 * Scale) \div 10
    /\ Len(validated) < Len(chunks)

\* C10: the confidence of a chunk is 0.5 * overlap_ratio + 0.5 *
\* relevance_score, overlap_ratio being |Q \cap C| / |Q| over the distinct
\* lower-cased words of the query and of the chunk, and 0 when Q is empty.
C10_ConfidenceFormula ==
    pc = "branch" =>
        \A i \in 1..Len(scores) :
            LET Q == {Lower(w) : w \in Range(query)}
                C == {Lower(w) : w \in Range(chunks[i].content)}
            IN  IF Q = {}
                THEN 2 * scores[i].confidence = chunks[i].relevance_score
                ELSE 2 * Cardinality(Q) * scores[i].confidence
                        = Scale * Cardinality(Q \cap C)
                          + Cardinality(Q) * chunks[i].relevance_score

\* a query with a repeated word in two cases, half of whose distinct words
\* are in the chunk
C10_Witness ==
    /\ pc = "branch"
    /\ query = <<"docker", "Docker", "deploy">>
    /\ \E i \in 1..Len(scores) :
        /\ chunks[i].content = <<"Docker", "docker">>
        /\ 2 * scores[i].confidence = (Scale \div 2) + chunks[i].relevance_score

\* the chunk retrieve_parallel built of the first hit with the id of e
ChunkOf(e) == CHOOSE c \in Range(all_chunks) : c.chunk_id = e.id

\* C11: the relevance_score of a hit at distance d is 1 - d/2 cut to [0, 1]
\* (1 at d = 0, 0 at d = 2), it is 0.5 for a hit whose distance is None, and
\* it lies in [0, 1] for every distance, also outside [0, 2].
C11_ScoreClamped ==
    RetrieveReturned =>
        \A e \in Range(served) :
            LET r == ChunkOf(e).relevance_score
                d == e.distance.x
            IN  /\ 0 <= r /\ r <= Scale
                /\ e.distance.none => 2 * r = Scale
                /\ (~e.distance.none /\ d <= 0) => r = Scale
                /\ (~e.distance.none /\ d >= 2 * Scale) => r = 0
                /\ (~e.distance.none /\ 0 <= d /\ d <= 2 * Scale)
                        => 2 * r = 2 * Scale - d

\* one result with a hit without a distance, a hit below 0 and a hit above 2
C11_Witness ==
    /\ RetrieveReturned
    /\ \E e \in Range(served) : e.distance.none
    /\ \E e \in Range(served) : ~e.distance.none /\ e.distance.x < 0
    /\ \E e \in Range(served) :
            ~e.distance.none /\ e.distance.x > 2 * Scale

\* the position at which the id was first met in the pass
FirstMet(id) == CHOOSE k \in 1..Len(served) : served[k].id = id

\* C12: the list retrieve_parallel returns is in non-increasing order of
\* relevance_score over the chunks of all sub-queries, and chunks of equal
\* score are in the order in which they were first met.
C12_SortedStable ==
    RetrieveReturned =>
        \A i, j \in 1..Len(all_chunks) :
            i < j =>
                /\ all_chunks[i].relevance_score >= all_chunks[j].relevance_score
                /\ all_chunks[i].relevance_score = all_chunks[j].relevance_score
                    => FirstMet(all_chunks[i].chunk_id)
                        < FirstMet(all_chunks[j].chunk_id)

\* two sub-queries; the sort moved a chunk of the second forward, and two
\* chunks of equal score from different sub-queries kept their order
C12_Witness ==
    /\ RetrieveReturned
    /\ Len(rq) = 2
    /\ \E i, j \in 1..Len(all_chunks) :
        /\ i < j
        /\ FirstMet(all_chunks[i].chunk_id) > FirstMet(all_chunks[j].chunk_id)
    /\ \E i, j \in 1..Len(all_chunks) :
        /\ i < j
        /\ all_chunks[i].relevance_score = all_chunks[j].relevance_score

\* the run is over: process returned, or an exception left it
Finished == pc \in {"returned", "raised"}

\* C13: with a store that has no hit for any sub-query, validation asks for
\* the second retrieval, and a run that issued both retrievals and invoked
\* the synthesizer returns normally, with no chunk handed to the
\* synthesizer, sources = [] and confidence = 0.
C13_EmptyStoreReturns ==
    /\ (store = {} /\ Len(trace) >= 3) => trace[3].needs
    /\ (store = {} /\ Finished /\ Len(trace) = 5) =>
        /\ pc = "returned"
        /\ raised = "none"
        /\ synth_chunks = <<>>
        /\ result.sources = <<>>
        /\ result.metadata.confidence = 0

\* the synthesizer has been invoked in this run
Synthesized ==
    \E i \in 1..Len(trace) : trace[i].stage = "synthesize"

\* C14: what synthesize hands to process is a string, the completion's text
\* or the error string, and assembling the result of it raises nothing.
C14_AnswerIsString ==
    /\ pc = "assemble" => answer.t = "str"
    /\ (Synthesized /\ Finished) => (pc = "returned" /\ raised = "none")

\* the keys of the events from position k + 1 on
KindsFrom(k) == [i \in 1..(Len(events) - k) |-> events[k + i].kind]

\* the number of events with one of the keys
Count(kinds) == Cardinality({i \in 1..Len(events) : events[i].kind \in kinds})

\* C15: the events of a streamed response are token events, then one sources
\* event, then one metadata event, then one done event, or a beginning of
\* that followed by one error event; a finished response holds exactly one
\* done or error event, as its last event, and no token event comes after
\* a sources or metadata event.
C15_EventOrder ==
    /\ \E k \in 0..Len(events) :
        /\ \A i \in 1..k : events[i].kind = "token"
        /\ KindsFrom(k) \in
                {<<>>, <<"sources">>, <<"sources", "metadata">>,
                 <<"sources", "metadata", "done">>,
                 <<"error">>, <<"sources", "error">>,
                 <<"sources", "metadata", "error">>}
    /\ Count({"done", "error"}) <= 1
    /\ gen = "closed" =>
        /\ Count({"done", "error"}) = 1
        /\ events[Len(events)].kind \in {"done", "error"}
    /\ Count({"done", "error"}) = 1 => gen = "closed"

\* a finished response of two tokens, sources, metadata and done
C15_Witness ==
    /\ gen = "closed"
    /\ Len(events) = 5
    /\ events[2].kind = "token"
    /\ events[5].kind = "done"

\* the second retrieval has returned and its chunks are merged
MergedIn == pc = "synthesize" /\ pass = 2

\* the positions in chunks of the chunks the validator kept
KeptAt == {i \in 1..Len(chunks) : scores[i].confidence >= min_confidence}

\* the position in chunks of the chunk with the id
PosOf(id) == CHOOSE i \in 1..Len(chunks) : chunks[i].chunk_id = id

\* the re-retrieved chunks whose id the validator had not kept
Fresh ==
    SelectSeq(additional_chunks,
              LAMBDA c : \A i \in KeptAt : chunks[i].chunk_id # c.chunk_id)

C17_SourcesOfPrefix ==
    pc = "returned" =>
        /\ Len(result.sources) = Min(max_sources, Len(validated))
        /\ Len(synth_chunks) = Len(result.sources)
        /\ \A i \in 1..Len(result.sources) :
            LET src == result.sources[i]
                vc == synth_chunks[i]
                n == CharLen(vc.chunk.content)
                p == src.content_preview
            IN  /\ vc = validated[i]
                /\ src.chunk_id = vc.chunk.chunk_id
                /\ src.document = vc.chunk.document
                /\ src.section = vc.chunk.section
                /\ src.relevance_score = vc.confidence
                /\ p.of = vc.chunk.content
                /\ n <= 200 => (p.kept = n /\ p.suffix = 0)
                /\ n > 200 => (p.kept = 200 /\ p.suffix = 3)
                /\ p.kept + p.suffix <= 203

\* more chunks than max_sources; a content of 200 characters kept whole and
\* a content of 201 characters cut
C17_Witness ==
    /\ pc = "returned"
    /\ Len(validated) > max_sources
    /\ \E i \in 1..Len(result.sources) :
        /\ result.sources[i].content_preview.suffix = 0
        /\ result.sources[i].content_preview.kept = 200
    /\ \E i \in 1..Len(result.sources) :
        result.sources[i].content_preview.suffix = 3

\* the sum of the confidences of the first n validated chunks
RECURSIVE TopSum(_)
TopSum(n) == IF n = 0 THEN 0 ELSE validated[n].confidence + TopSum(n - 1)

\* C18: metadata.confidence is the mean confidence of the first 3 chunks of
\* the final validated list, of all of them when there are fewer, and 0 when
\* there is none; it lies in [0, 1].  (confidence is in units of 1/6 of the
\* scale.)
C18_MeanOfTopThree ==
    pc = "returned" =>
        LET c == result.metadata.confidence
            n == Min(3, Len(validated))
        IN  /\ n = 0 => c = 0
            /\ n > 0 => n * c = 6 * TopSum(n)
            /\ 0 <= c /\ c <= 6 * Scale

\* four chunks or more, the fourth of which would change the mean
C18_Witness ==
    /\ pc = "returned"
    /\ Len(validated) >= 4
    /\ 3 * TopSum(4) # 4 * TopSum(3)

\* the characters of the contents of the chunks handed to the synthesizer
RECURSIVE HandedChars(_)
HandedChars(n) ==
    IF n = 0 THEN 0
    ELSE CharLen(synth_chunks[n].chunk.content) + HandedChars(n - 1)

\* C19: tokens_used is a quarter of the characters of the query, plus a
\* quarter of those of the answer, plus a quarter of those of the chunks
\* handed to the synthesizer, plus 100; validated chunks that were not
\* handed on add nothing.
C19_TokensOfHandedChunks ==
    pc = "returned" =>
        result.metadata.tokens_used
            = (CharLen(query) \div 4) + (CharLen(result.answer) \div 4)
              + (HandedChars(Len(synth_chunks)) \div 4) + 100

\* the distinct lower-cased words of a text
Words(text) == {Lower(w) : w \in Range(text)}

\* ten times the number of words of the sub-query found in the chunk, and
\* three times the number of words of the sub-query
Found10(chunk, text) == 10 * Cardinality(Words(text) \cap Words(chunk.content))
Asked3(text) == 3 * Cardinality(Words(text))

\* more than 0.3 of the words of the sub-query are in the chunk
Covers(chunk, text) ==
    Words(text) # {} /\ Found10(chunk, text) > Asked3(text)

C21_TextAndIntegerPriority ==
    (PlanReturned /\ query # <<>>) =>
        \A j \in 1..Len(sub_queries) :
            /\ sub_queries[j].text # <<>>
            /\ sub_queries[j].priority.t = "int"


KnownKeys == <<"sub_queries", "queries", "results">>

\* the value a dict holds under a key it has
Under(d, key) ==
    LET i == CHOOSE i \in 1..Len(d.members) : d.members[i].k = key
    IN  d.members[i].v

\* the first known key of a dict that has one
FirstKnown(d) ==
    LET k == CHOOSE k \in 1..Len(KnownKeys) :
                /\ HasKey(d, KnownKeys[k])
                /\ \A h \in 1..(k - 1) : ~HasKey(d, KnownKeys[h])
    IN  KnownKeys[k]

IsArray(d) == d.t = "list"
IsKeyed(d) ==
    /\ d.t = "dict"
    /\ \E k \in Range(KnownKeys) : HasKey(d, k)
    /\ Under(d, FirstKnown(d)).t = "list"
IsBare(d) == d.t = "dict" /\ \A k \in Range(KnownKeys) : ~HasKey(d, k)

\* the entries of a response of one of the three shapes, in response order
ShapeEntries(d) ==
    CASE IsArray(d) -> d.items
      [] IsKeyed(d) -> Under(d, FirstKnown(d)).items
      [] IsBare(d) -> [i \in 1..Len(d.members) |-> d.members[i].v]

\* the text of an entry: its "query", else its "text"; none when the entry
\* is no object
EntryText(e) ==
    IF e.t # "dict" THEN <<>>
    ELSE LET v == IF HasKey(e, "query") THEN Under(e, "query")
                  ELSE IF HasKey(e, "text") THEN Under(e, "text")
                  ELSE JStr(<<>>)
         IN  IF v.t = "str" THEN v.s ELSE <<>>

UsableTexts(d) ==
    LET usable == SelectSeq(ShapeEntries(d), LAMBDA e : EntryText(e) # <<>>)
    IN  [j \in 1..Len(usable) |-> EntryText(usable[j])]

\* C22: a response that is a bare array, an object holding the array under
\* the first of the keys sub_queries, queries, results it has, or an object
\* with none of these keys (its values are the entries) is decoded into one
\* SubQuery per usable entry, in response order.
C22_ThreeShapes ==
    (/\ PlanReturned
     /\ plan_response.kind = "json"
     /\ \/ IsArray(plan_response.data)
        \/ IsKeyed(plan_response.data)
        \/ IsBare(plan_response.data)
     /\ UsableTexts(plan_response.data) # <<>>) =>
        [j \in 1..Len(sub_queries) |-> sub_queries[j].text]
            = UsableTexts(plan_response.data)

\* an object holding "results" before "queries": the entry under "queries"
\* is the one decoded
C22_Witness ==
    /\ PlanReturned
    /\ plan_response.kind = "json"
    /\ IsKeyed(plan_response.data)
    /\ plan_response.data.members[1].k = "results"
    /\ FirstKnown(plan_response.data) = "queries"
    /\ EntryText(plan_response.data.members[1].v.items[1]) = T1
    /\ sub_queries = <<[text |-> T2, priority |-> JInt(2)]>>

\* an object with none of the known keys: its two values are decoded in
\* order
C22_WitnessValues ==
    /\ PlanReturned
    /\ plan_response.kind = "json"
    /\ IsBare(plan_response.data)
    /\ Len(sub_queries) = 2
    /\ sub_queries[1].text = T2
    /\ sub_queries[2].text = T1


\* the i-th Source is the chunk numbered [i] in the context
Cited(i) ==
    /\ i <= Len(context)
    /\ context[i].number = i
    /\ context[i].vc.chunk.chunk_id = result.sources[i].chunk_id

\* C23: for every max_sources, each Source of a returned result is a chunk
\* of the synthesizer's numbered context, the i-th Source being the chunk
\* numbered [i], and every numbered chunk is a returned Source.
C23_SourcesInContext ==
    pc = "returned" =>
        /\ \A i \in 1..Len(result.sources) : Cited(i)
        /\ Len(context) = Len(result.sources)

\* the same up to the 5 chunks the context is built from
C23_UpToFive ==
    (pc = "returned" /\ max_sources <= ContextChunks) =>
        /\ \A i \in 1..Len(result.sources) : Cited(i)
        /\ Len(context) = Len(result.sources)

\* a result of five Sources, each the chunk of its number
C23_UpToFiveWitness ==
    /\ pc = "returned"
    /\ max_sources = ContextChunks
    /\ Len(validated) > ContextChunks
    /\ Len(result.sources) = ContextChunks
    /\ \A i \in 1..Len(result.sources) : Cited(i)

====
